---- MODULE Spec2Model ----
(***************************************************************************)
(* State-machine model of gpax's two GP variants:                          *)
(*   - MultiTaskGP (gpax/multitask/mtgp.py): construction and model()      *)
(*   - DKL (gpax/dkl.py): model() and get_mvn_posterior()                  *)
(* Python's Optional values are sequences of length at most one:           *)
(* None is <<>> and a value v is <<v>>.                                    *)
(***************************************************************************)
EXTENDS Integers, Sequences, FiniteSets, TLC

\* ---------------------------------------------------------------- bounds
MaxTasks == 2
MaxLatents == 2
MaxRank == 3
MaxObs == 2
MaxX == 1
MaxY == 1
MaxW == 2
MaxB == 0
MaxNoise == 2
MaxA == 1
MaxShift == 1

\* ------------------------------------------------------------- Optional
None == <<>>
Some(v) == <<v>>
Opt(S) == {None} \cup {Some(v) : v \in S}

VARIABLES
    mt_pc,      \* "new", "constructed" or "raised" (ValueError in __init__)
    mt_args,    \* the arguments MultiTaskGP was constructed with
    mt,         \* the MultiTaskGP object's attributes
    mt_X_train, \* last column (task indices) of self.X_train, or None
    mt_W,       \* shape of W as last built by _sample_task_kernel_params
    mt_called,  \* TRUE once model() has run
    dkl_pc,     \* "new", "constructed", "fitted" or "sampled"
    dkl,        \* the DKL object's configuration
    dkl_data,   \* X_train and y_train
    params,     \* the hyperparameter sample drawn by DKL.model
    model_out,  \* what DKL.model computed for that sample
    post        \* what get_mvn_posterior returned for that sample, or None

mt_vars == <<mt_pc, mt_args, mt, mt_X_train, mt_W, mt_called>>
dkl_vars == <<dkl_pc, dkl, dkl_data, params, model_out, post>>
vars == <<mt_pc, mt_args, mt, mt_X_train, mt_W, mt_called,
          dkl_pc, dkl, dkl_data, params, model_out, post>>

\* ===================================================== MultiTaskGP
NoArgs == [num_latents |-> None, shared_input_space |-> TRUE,
           num_tasks |-> None, rank |-> None, task_kernel_prior |-> FALSE]

NoObject == [num_tasks |-> None, num_latents |-> None, rank |-> None,
             shared_input |-> TRUE, task_kernel_prior |-> FALSE]

\* __init__, lines 59-64: the two argument checks that raise ValueError
InitRaises_swapped(shared_input_space, num_tasks, num_latents) ==
    IF shared_input_space THEN num_latents = None ELSE num_tasks = None

InitRaises(shared_input_space, num_tasks, num_latents) ==
    IF shared_input_space THEN num_tasks = None ELSE num_latents = None

\* __init__, lines 65-67 and 72-73: the attributes the constructor stores
InitObject(a) ==
    [num_tasks |-> a.num_tasks,
     num_latents |-> IF a.num_latents = None THEN a.num_tasks ELSE a.num_latents,
     rank |-> a.rank,
     shared_input |-> a.shared_input_space,
     task_kernel_prior |-> a.task_kernel_prior]

MT_Init(num_latents, shared_input_space, num_tasks, rank, task_kernel_prior) ==
    /\ mt_pc = "new"
    /\ LET a == [num_latents |-> num_latents,
                 shared_input_space |-> shared_input_space,
                 num_tasks |-> num_tasks, rank |-> rank,
                 task_kernel_prior |-> task_kernel_prior]
       IN /\ mt_args' = a
          /\ IF InitRaises(shared_input_space, num_tasks, num_latents)
             THEN mt_pc' = "raised" /\ mt' = mt
             ELSE mt_pc' = "constructed" /\ mt' = InitObject(a)
    /\ UNCHANGED <<mt_X_train, mt_W, mt_called>>
    /\ UNCHANGED dkl_vars

\* ExactGP.fit stores the training inputs before the sampler runs model()
MT_Fit(task_column) ==
    /\ mt_pc = "constructed"
    /\ mt_X_train' = Some(task_column)
    /\ UNCHANGED <<mt_pc, mt_args, mt, mt_W, mt_called>>
    /\ UNCHANGED dkl_vars

\* len(onp.unique(self.X_train[:, -1]))
NumUnique(column) == Cardinality({column[i] : i \in 1..Len(column)})

\* model(), lines 90-91: infer num_tasks when inputs are not shared
InferNumTasks(self, X_train) ==
    IF ~self.shared_input /\ self.num_tasks = None
    THEN Some(NumUnique(X_train))
    ELSE self.num_tasks

\* model(), lines 93-94: default rank
DefaultRank_full(self_rank, num_tasks) ==
    IF self_rank = None THEN Some(num_tasks[1]) ELSE self_rank

DefaultRank(self_rank, num_tasks) ==
    IF self_rank = None THEN Some(num_tasks[1] - 1) ELSE self_rank

\* _sample_task_kernel_params, lines 143-146: shape of W
WShape(self) == <<self.num_latents[1], self.num_tasks[1], self.rank[1]>>

MT_Model ==
    /\ mt_pc = "constructed"
    /\ mt_X_train # None
    /\ LET nt == InferNumTasks(mt, mt_X_train[1])
           self == [mt EXCEPT !.num_tasks = nt,
                              !.rank = DefaultRank(mt.rank, nt)]
       IN /\ mt' = self
          /\ mt_W' = IF self.task_kernel_prior THEN mt_W ELSE Some(WShape(self))
    /\ mt_called' = TRUE
    /\ UNCHANGED <<mt_pc, mt_args, mt_X_train>>
    /\ UNCHANGED dkl_vars

NextMT ==
    \/ \E nl \in Opt(1..MaxLatents), sh \in BOOLEAN, nt \in Opt(1..MaxTasks),
          r \in Opt(0..MaxRank), tkp \in BOOLEAN :
          MT_Init(nl, sh, nt, r, tkp)
    \/ \E n \in 1..MaxObs : \E col \in [1..n -> 0..MaxTasks] : MT_Fit(col)
    \/ MT_Model

\* ============================================================== DKL
NoParams == [w1 |-> 0, b1 |-> 0, w2 |-> 0, b2 |-> 0, w3 |-> 0, b3 |-> 0,
             noise |-> 0, a |-> 0, eps |-> 0]

\* __init__, lines 40-42: the optional callables, recorded as set / not set
DKL_Init(gp_mean_fn, gp_mean_fn_prior, latent_prior) ==
    /\ dkl_pc = "new"
    /\ dkl' = [gp_mean_fn |-> gp_mean_fn, gp_mean_fn_prior |-> gp_mean_fn_prior,
               latent_prior |-> latent_prior]
    /\ dkl_pc' = "constructed"
    /\ UNCHANGED <<dkl_data, params, model_out, post>>
    /\ UNCHANGED mt_vars

\* ExactGP.fit stores X_train and y_train (one scalar observation here)
DKL_Fit(X, y) ==
    /\ dkl_pc = "constructed"
    /\ dkl_data' = [X_train |-> X, y_train |-> y]
    /\ dkl_pc' = "fitted"
    /\ UNCHANGED <<dkl, params, model_out, post>>
    /\ UNCHANGED mt_vars

\* jnp.tanh on integers: saturation to [-1, 1]
Tanh(x) == IF x > 1 THEN 1 ELSE IF x < -1 THEN -1 ELSE x

\* bnn, lines 131-136: the three-layer MLP embedding
bnn(X, p) ==
    LET h1 == Tanh(X * p.w1 + p.b1)
        h2 == Tanh(h1 * p.w2 + p.b2)
    IN h2 * p.w3 + p.b3

\* the caller's gp_mean_fn(z) or gp_mean_fn(z, params): a linear mean that
\* takes slope and intercept from the sampled parameter when one is passed
gp_mean_fn(args) ==
    IF Len(args) = 2 THEN args[2].a * args[1] + args[2].a ELSE args[1] - 1

\* the caller's latent_prior(z): a sample around the embedding z
latent_prior(z, p) == z + p.eps

\* get_kernel(self.kernel)(X, Z, params, noise, jitter): the call as made;
\* an argument that is not passed (the kernel's own default applies) is None
Kernel(X, Z, p, noise, jitter) ==
    [X |-> X, Z |-> Z, params |-> p, noise |-> noise, jitter |-> jitter]

\* model(), lines 50-55: the prior mean on the embedding
ModelMean(self, z, p) ==
    IF self.gp_mean_fn
    THEN 0 + gp_mean_fn(IF self.gp_mean_fn_prior THEN <<z, p>> ELSE <<z>>)
    ELSE 0

\* model(), lines 56-57: the representation the likelihood kernel is built on
ModelLatent(self, z, p) ==
    IF self.latent_prior THEN latent_prior(z, p) ELSE z

\* model(), lines 46-76, for one draw p of all the sample sites; a behaviour
\* follows one draw of the sampler from model() to the posterior computed on it
DKL_Model(p) ==
    /\ dkl_pc = "fitted"
    /\ (dkl.gp_mean_fn /\ dkl.gp_mean_fn_prior) <=> (p.a # 0)
    /\ dkl.latent_prior \/ p.eps = 0
    /\ LET z0 == bnn(dkl_data.X_train, p)
           f_loc == ModelMean(dkl, z0, p)
           z == ModelLatent(dkl, z0, p)
       IN model_out' = Some([z |-> z, f_loc |-> f_loc,
                             k |-> Kernel(z, z, p, Some(p.noise), None)])
    /\ params' = p
    /\ dkl_pc' = "sampled"
    /\ UNCHANGED <<dkl, dkl_data, post>>
    /\ UNCHANGED mt_vars

\* jnp.array(noiseless, int)
BoolToInt(b) == IF b THEN 1 ELSE 0

\* get_mvn_posterior, lines 87-88
NoiseP_ignoring(noise, noiseless) == noise

NoiseP(noise, noiseless) == noise * (1 - BoolToInt(noiseless))

\* get_mvn_posterior, lines 95 and 106: arguments of the mean function
MeanArgs(self, z, p) == IF self.gp_mean_fn_prior THEN <<z, p>> ELSE <<z>>

\* get_mvn_posterior, lines 93-96
YResidual(self, y_train, z_train, p) ==
    IF self.gp_mean_fn
    THEN y_train - gp_mean_fn(MeanArgs(self, z_train, p))
    ELSE y_train

\* get_mvn_posterior, lines 102 and 104: k_pX * inv(k_XX) * y_residual,
\* kept as the product's operands
Solve(k_pX, k_XX, rhs) == [k_pX |-> k_pX, k_XX |-> k_XX, rhs |-> rhs]

\* get_mvn_posterior, lines 104-107: the predictive mean is the solved
\* product plus a shift
PosteriorMean_noshift(self, solved, z_test, p) ==
    [solve |-> solved, shift |-> 0]

PosteriorMean(self, solved, z_test, p) ==
    [solve |-> solved,
     shift |-> IF self.gp_mean_fn
               THEN gp_mean_fn(MeanArgs(self, z_test, p))
               ELSE 0]

\* get_mvn_posterior, lines 87-108, on the sample drawn by model()
DKL_get_mvn_posterior(X_new, noiseless) ==
    /\ dkl_pc = "sampled"
    /\ LET noise == params.noise
           noise_p == NoiseP(noise, noiseless)
           z_train == bnn(dkl_data.X_train, params)
           z_test == bnn(X_new, params)
           y_residual == YResidual(dkl, dkl_data.y_train, z_train, params)
           k_pp == Kernel(z_test, z_test, params, Some(noise_p), None)
           k_pX == Kernel(z_test, z_train, params, None, Some(0))
           k_XX == Kernel(z_train, z_train, params, Some(noise), None)
           mean == PosteriorMean(dkl, Solve(k_pX, k_XX, y_residual), z_test, params)
       IN post' = Some([X_new |-> X_new, noiseless |-> noiseless,
                        z_train |-> z_train, z_test |-> z_test,
                        k_pp |-> k_pp, k_pX |-> k_pX, k_XX |-> k_XX,
                        mean |-> mean,
                        cov |-> [k_pp |-> k_pp, solve |-> Solve(k_pX, k_XX, k_pX)]])
    /\ UNCHANGED <<dkl_pc, dkl, dkl_data, params, model_out>>
    /\ UNCHANGED mt_vars

\* the draws of the sample sites: the first and last layer's weights and the
\* output bias vary, the hidden layer is held at one draw; noise is positive
\* (LogNormal); a is 0 when the mean function has no sampled parameter
Samples ==
    [w1 : 1..MaxW, b1 : {0}, w2 : {1}, b2 : {0}, w3 : 1..MaxW, b3 : 0..MaxB,
     noise : 1..MaxNoise, a : 0..MaxA, eps : 0..MaxShift]

NextDKL ==
    \/ \E m \in BOOLEAN, mp \in BOOLEAN, lp \in BOOLEAN : DKL_Init(m, mp, lp)
    \/ \E X \in 0..MaxX, y \in 1..MaxY : DKL_Fit(X, y)
    \/ \E p \in Samples : DKL_Model(p)
    \/ \E X_new \in 0..MaxX, noiseless \in BOOLEAN :
          DKL_get_mvn_posterior(X_new, noiseless)

DKL_Start ==
    /\ dkl_pc = "new"
    /\ dkl = [gp_mean_fn |-> FALSE, gp_mean_fn_prior |-> FALSE, latent_prior |-> FALSE]
    /\ dkl_data = [X_train |-> 0, y_train |-> 0]
    /\ params = NoParams
    /\ model_out = None
    /\ post = None

Init ==
    /\ mt_pc = "new"
    /\ mt_args = NoArgs
    /\ mt = NoObject
    /\ mt_X_train = None
    /\ mt_W = None
    /\ mt_called = FALSE
    /\ DKL_Start

SpecMT == Init /\ [][NextMT]_vars

SpecDKL == Init /\ [][NextDKL]_vars
\* ============================================================ claims

\* C1: constructing MultiTaskGP raises ValueError exactly when
\* (shared_input_space and num_tasks is None) or (not shared_input_space and
\* num_latents is None); every other combination constructs the object.
C1_InitRaisesExactly ==
    mt_pc # "new" =>
        /\ mt_pc \in {"raised", "constructed"}
        /\ (mt_pc = "raised") <=>
              \/ mt_args.shared_input_space /\ mt_args.num_tasks = None
              \/ ~mt_args.shared_input_space /\ mt_args.num_latents = None

C1_Witness ==
    /\ mt_pc = "raised"
    /\ ~mt_args.shared_input_space
    /\ mt_args.num_latents = None
    /\ mt_args.num_tasks # None

\* C2: when rank was not given at construction, after any call of model() the
\* rank attribute, and the rank W is shaped with, is num_tasks - 1, num_tasks
\* being the constructor's value when one was given and the inferred one else.
C2_DefaultRank ==
    (mt_called /\ mt_args.rank = None) =>
        /\ mt.num_tasks # None
        /\ mt_args.num_tasks # None => mt.num_tasks = mt_args.num_tasks
        /\ mt.rank = Some(mt.num_tasks[1] - 1)
        /\ mt_W # None => mt_W[1][3] = mt_W[1][2] - 1 /\ mt_W[1][2] = mt.num_tasks[1]

C2_Witness ==
    /\ mt_called
    /\ mt_args.rank = None
    /\ mt_args.num_tasks = None
    /\ mt_W # None
    /\ mt_W[1][2] = 2

\* C3: the rank W is shaped with never exceeds num_tasks, in every state
\* reached by constructing a MultiTaskGP and calling model().
C3_RankAtMostNumTasks ==
    mt_W # None => mt_W[1][3] <= mt_W[1][2]

\* C4: in get_mvn_posterior the noise passed for k_pp is 0 when noiseless and
\* params["noise"] otherwise; k_XX always gets params["noise"]; k_pX gets no
\* noise and jitter 0.
C4_NoiseArguments ==
    post # None =>
        LET r == post[1] IN
        /\ r.k_pp.noise = Some(IF r.noiseless THEN 0 ELSE params.noise)
        /\ r.k_pp.jitter = None
        /\ r.k_XX.noise = Some(params.noise)
        /\ r.k_pX.noise = None
        /\ r.k_pX.jitter = Some(0)

C4_Witness ==
    /\ post # None
    /\ post[1].noiseless
    /\ params.noise = 2
    /\ post[1].k_pp.noise = Some(0)
    /\ post[1].k_XX.noise = Some(2)

\* C5: with gp_mean_fn set the returned mean is
\* k_pX * inv(k_XX) * (y_train - m(z_train)) + m(z_test), m being called on the
\* BNN embeddings and with params exactly when gp_mean_fn_prior is set; with
\* gp_mean_fn None it is k_pX * inv(k_XX) * y_train, nothing subtracted or added.
C5_MeanFunctionSymmetric ==
    post # None =>
        LET r == post[1]
            zt == bnn(dkl_data.X_train, params)
            zs == bnn(r.X_new, params)
            m(z) == IF dkl.gp_mean_fn_prior
                    THEN gp_mean_fn(<<z, params>>)
                    ELSE gp_mean_fn(<<z>>)
        IN /\ r.mean.solve.k_pX = r.k_pX
           /\ r.mean.solve.k_XX = r.k_XX
           /\ dkl.gp_mean_fn =>
                 /\ r.mean.solve.rhs = dkl_data.y_train - m(zt)
                 /\ r.mean.shift = m(zs)
           /\ ~dkl.gp_mean_fn =>
                 /\ r.mean.solve.rhs = dkl_data.y_train
                 /\ r.mean.shift = 0

C5_Witness ==
    /\ post # None
    /\ dkl.gp_mean_fn
    /\ dkl.gp_mean_fn_prior
    /\ post[1].mean.shift > 0
    /\ post[1].mean.solve.rhs # dkl_data.y_train
    /\ post[1].z_test # post[1].z_train

\* C6: for every configuration, with or without latent_prior, k_XX in
\* get_mvn_posterior is computed on the same latent representation of the
\* training inputs as the kernel of the likelihood in model(), for one sample.
C6_SameLatentRepresentation ==
    (post # None /\ model_out # None) =>
        /\ post[1].k_XX.X = model_out[1].k.X
        /\ post[1].k_XX.Z = model_out[1].k.Z
====
